---------------------------- MODULE Spec2Model ----------------------------
(***************************************************************************)
(* Named-entity highlighter: the web application (src/app.py) and the      *)
(* desktop application (src/main.py).  Text is a sequence of one-character *)
(* strings; offsets are 0-based as in Python and slices are half-open.     *)
(* The recognizer (spaCy) is an external collaborator: its answer for a    *)
(* text is chosen nondeterministically the first time the text is          *)
(* processed and remembered, so that it is a function of the text.         *)
(***************************************************************************)
EXTENDS Integers, Sequences, FiniteSets, TLC

VARIABLES
    text_input,         \* main.py: self.text_input (QTextEdit); app.py: the form's text
    checkboxes,         \* main.py: self.checkboxes, label -> checked
    selected_entities,  \* main.py: self.selected_entities
    ents_of,            \* recognizer: processed text -> doc.ents (sampled lazily)
    toks_of,            \* recognizer: processed text -> tokens, sentences (sampled lazily)
    text_output,        \* main.py: self.text_output, as written by highlight_entities
    word_doc,           \* main.py: the document written by save_to_word
    pdf_doc,            \* main.py: the markup given to Paragraph by save_to_pdf
    web,                \* app.py: the response of /ner
    stats,              \* main.py: the report displayed by show_statistics
    call                \* the last call of a preprocessing function, of tag_entities
                        \* or of show_statistics, and the text it handed to nlp
                        \* (<<>>: it returned before)

vars == <<text_input, checkboxes, selected_entities, ents_of, toks_of,
          text_output, word_doc, pdf_doc, web, stats, call>>

\* no call yet
NoCall == [fn |-> "none", nlp_text |-> <<>>]

----------------------------------------------------------------------------
(* Bounds of the model *)

\* longest document of the rendering and session specifications
MaxLen == 2
\* most entities the recognizer reports for one document
MaxSpans == 2
\* most whitespace-separated tokens of a preprocessor input
MaxTokens == 3
\* most recognizer tokens of a document in the statistics
MaxToks == 2

----------------------------------------------------------------------------
(* Characters *)

Digits == {"0", "1", "2", "3", "4", "5", "6", "7", "8", "9"}
Upper == {"A", "B"}
Lower == {"a", "b"}
\* str.split() and str.strip() without arguments work on whitespace
Whitespace == {" ", "\t", "\n", "\r"}

\* string.punctuation (the backquote, which a TLA+ string cannot hold, is
\* written "backquote")
Punctuation ==
    {"!", "\"", "#", "$", "%", "&", "'", "(", ")", "*", "+", ",", "-", ".",
     "/", ":", ";", "<", "=", ">", "?", "@", "[", "\\", "]", "^", "_", "backquote",
     "{", "|", "}", "~"}

\* the characters tested by `any(p in text for p in ".!?")`
Terminal == {".", "!", "?"}

----------------------------------------------------------------------------
(* Python string operations *)

Min(a, b) == IF a <= b THEN a ELSE b

\* s[a:b] for a, b >= 0: both ends are clamped to len(s)
Slice(s, a, b) ==
    LET lo == Min(a, Len(s))
        hi == Min(b, Len(s))
    IN  IF lo >= hi THEN <<>> ELSE SubSeq(s, lo + 1, hi)

\* s[a:]
SliceFrom(s, a) == Slice(s, a, Len(s))

\* any(c in s for c in chars)
ContainsAny(s, chars) == \E i \in 1..Len(s) : s[i] \in chars

RECURSIVE lstrip(_)
lstrip(s) ==
    IF s # <<>> /\ s[1] \in Whitespace THEN lstrip(Tail(s)) ELSE s

RECURSIVE rstrip(_)
rstrip(s) ==
    IF s # <<>> /\ s[Len(s)] \in Whitespace
    THEN rstrip(SubSeq(s, 1, Len(s) - 1))
    ELSE s

\* str.strip()
strip(s) == rstrip(lstrip(s))

\* str.split(): the maximal runs of non-whitespace characters, in order
RECURSIVE SplitFrom(_, _, _)
SplitFrom(s, i, cur) ==
    IF i > Len(s)
    THEN IF cur = <<>> THEN <<>> ELSE <<cur>>
    ELSE IF s[i] \in Whitespace
         THEN (IF cur = <<>> THEN <<>> ELSE <<cur>>) \o SplitFrom(s, i + 1, <<>>)
         ELSE SplitFrom(s, i + 1, Append(cur, s[i]))

split(s) == SplitFrom(s, 1, <<>>)

\* sep.join(parts)
RECURSIVE join(_, _)
join(sep, parts) ==
    IF parts = <<>> THEN <<>>
    ELSE IF Len(parts) = 1 THEN parts[1]
    ELSE parts[1] \o sep \o join(sep, Tail(parts))

\* "".join(parts)
RECURSIVE Concat(_)
Concat(parts) ==
    IF parts = <<>> THEN <<>> ELSE parts[1] \o Concat(Tail(parts))

----------------------------------------------------------------------------
(* The regular expressions of the preprocessor *)

AllDigits(s) == \A i \in 1..Len(s) : s[i] \in Digits

\* \d{lo,hi}, the whole of s
DigitRun(s, lo, hi) == Len(s) >= lo /\ Len(s) <= hi /\ AllDigits(s)

\* re.match(r"^\$?\d+(\.\d+)?$", t).  A token of str.split() holds no
\* newline, so the `$` anchor is the end of the token.
MatchNumber(t) ==
    LET u == IF t # <<>> /\ t[1] = "$" THEN Tail(t) ELSE t
    IN  \/ (u # <<>> /\ AllDigits(u))
        \/ \E k \in 2..(Len(u) - 1) :
              /\ u[k] = "."
              /\ AllDigits(SubSeq(u, 1, k - 1))
              /\ AllDigits(SubSeq(u, k + 1, Len(u)))

\* re.match(r"^\d{1,2}/\d{1,2}/\d{2,4}$", t)
MatchDate(t) ==
    \E i \in 2..Len(t) : \E j \in (i + 2)..Len(t) :
        /\ t[i] = "/"
        /\ t[j] = "/"
        /\ DigitRun(SubSeq(t, 1, i - 1), 1, 2)
        /\ DigitRun(SubSeq(t, i + 1, j - 1), 1, 2)
        /\ DigitRun(SubSeq(t, j + 1, Len(t)), 2, 4)

\* c.isupper() for one character
isupper(c) == c \in Upper

----------------------------------------------------------------------------
(* Preprocessing *)

\* mutant: the period is inserted whatever the next token starts with
PreprocessStep_AnyNext(tokens, i) ==
    IF i < Len(tokens) /\ MatchNumber(tokens[i])
    THEN <<tokens[i], <<".">>>>
    ELSE <<tokens[i]>>

\* app.py preprocess: the loop body, the tokens appended for token i
PreprocessStep(tokens, i) ==
    IF i < Len(tokens) /\ MatchNumber(tokens[i]) /\ isupper(tokens[i + 1][1])
    THEN <<tokens[i], <<".">>>>
    ELSE <<tokens[i]>>

RECURSIVE PreprocessLoop(_, _)
PreprocessLoop(tokens, i) ==
    IF i > Len(tokens) THEN <<>>
    ELSE PreprocessStep(tokens, i) \o PreprocessLoop(tokens, i + 1)

\* app.py preprocess
preprocess(text) ==
    IF ~ContainsAny(text, Terminal)
    THEN join(<<" ">>, PreprocessLoop(split(text), 1))
    ELSE text

\* main.py preprocess_text: the loop body, the tokens appended for token i
PreprocessTextStep(tokens, i) ==
    IF /\ i < Len(tokens)
       /\ (MatchDate(tokens[i]) \/ MatchNumber(tokens[i]))
       /\ tokens[i + 1] # <<>> /\ isupper(tokens[i + 1][1])
    THEN <<tokens[i], <<".">>>>
    ELSE <<tokens[i]>>

RECURSIVE PreprocessTextLoop(_, _)
PreprocessTextLoop(tokens, i) ==
    IF i > Len(tokens) THEN <<>>
    ELSE PreprocessTextStep(tokens, i) \o PreprocessTextLoop(tokens, i + 1)

\* main.py preprocess_text
preprocess_text(text) == join(<<" ">>, PreprocessTextLoop(split(text), 1))

\* main.py tag_entities, save_to_word, save_to_pdf, show_statistics: the text
\* read from the input box
InputText(raw) == strip(raw)

\* mutant: preprocess_text is called whatever the text holds
GatedText_NoGate(text) == preprocess_text(text)

\* main.py, the same four handlers: the text given to self.nlp, for a
\* non-empty InputText
GatedText(text) ==
    IF ~ContainsAny(text, Punctuation) THEN preprocess_text(text) ELSE text

\* app.py ner: the text given to nlp
WebText(text) == preprocess(text)

----------------------------------------------------------------------------
(* Labels and colors.  The palette is cut to its first two entries; MISC   *)
(* stands for a label of the recognizer that the palette does not hold.    *)

\* main.py CHECKBOX_ENTITY_LABELS, app.py LABELS
CHECKBOX_ENTITY_LABELS == <<"PERSON", "ORG">>

\* the labels the recognizer may give an entity
RecognizerLabels == {"PERSON", "ORG", "MISC"}

\* A color is a sequence of pieces: the "#" and the six hex digits.
\* main.py ENTITY_COLORS, app.py COLORS
ENTITY_COLORS ==
    [l \in {"PERSON", "ORG"} |->
        IF l = "PERSON" THEN <<"#", "C8E6C9">> ELSE <<"#", "A2C8EC">>]

\* dict.get(key, default)
Get(dict, key, default) == IF key \in DOMAIN dict THEN dict[key] ELSE default

\* color_hex.lstrip('#')
RECURSIVE lstrip_hash(_)
lstrip_hash(c) == IF c # <<>> /\ c[1] = "#" THEN lstrip_hash(Tail(c)) ELSE c

\* a sequence of string pieces as one string
RECURSIVE Str(_)
Str(c) == IF c = <<>> THEN "" ELSE c[1] \o Str(Tail(c))

\* mutant: another fallback color
ColorOf_OtherDefault(label) == Get(ENTITY_COLORS, label, <<"#", "FFFFFF">>)

\* app.py line 94, main.py lines 267 and 331
ColorOf(label) == Get(ENTITY_COLORS, label, <<"#", "FFFF00">>)

\* main.py line 300 with set_run_background (lines 81-82): the w:fill value
WordFill(label) == lstrip_hash(Get(ENTITY_COLORS, label, <<"FFFF00">>))

\* f" [{ent.label_}]", one piece of the output
LabelSuffix(label) == " [" \o label \o "]"

\* app.py lines 95-96
WebSpanOpen(color) == "<span class=\"entity\" style=\"background:" \o Str(color) \o "\">"

\* main.py line 332
PdfSpanOpen(color) == "<span backColor=\"" \o Str(color) \o "\">"

SpanClose == "</span>"

----------------------------------------------------------------------------
(* The recognizer.  An entity is [start_char, end_char, label_, text]; as  *)
(* in spaCy, ent.text is the text between its offsets.                     *)

Ent(text, s, e, l) ==
    [start_char |-> s, end_char |-> e, label_ |-> l, text |-> Slice(text, s, e)]

\* doc.ents under the recognizer's contract: at most k entities, each of at
\* least one character, within the text, sorted and not overlapping, the
\* first starting at `from` or later
RECURSIVE EntSeqs(_, _, _)
EntSeqs(text, from, k) ==
    IF k = 0 THEN { <<>> }
    ELSE { <<>> } \cup
         UNION { { <<Ent(text, s, e, l)>> \o rest : rest \in EntSeqs(text, e, k - 1) } :
                 s \in from..(Len(text) - 1), e \in (from + 1)..Len(text),
                 l \in RecognizerLabels }

Docs(text) == { d \in EntSeqs(text, 0, MaxSpans) :
                  \A i \in 1..Len(d) : d[i].start_char < d[i].end_char }

\* doc.ents of a recognizer that does not keep the contract: any offsets, in
\* any order
RECURSIVE AnyEntSeqs(_, _)
AnyEntSeqs(text, k) ==
    IF k = 0 THEN { <<>> }
    ELSE { <<>> } \cup
         { <<Ent(text, s, e, l)>> \o rest :
             s \in 0..(Len(text) + 1), e \in 0..(Len(text) + 1),
             l \in {"PERSON"}, rest \in AnyEntSeqs(text, k - 1) }

Known(text) == \E p \in ents_of : p[1] = text

\* the answers nlp(text) may give: the one already given, or any
NlpEnts(text) ==
    IF Known(text) THEN { (CHOOSE p \in ents_of : p[1] = text)[2] } ELSE Docs(text)

----------------------------------------------------------------------------
(* The render walks *)

\* the elements of a list
SetOf(list) == { list[i] : i \in 1..Len(list) }

\* list membership
In(x, list) == \E i \in 1..Len(list) : list[i] = x

\* mutant: nothing is filtered out
FilterEnts_KeepAll(ents, selected) == ents

\* main.py lines 255-256: the selected entities, in order
FilterEnts(ents, selected) ==
    SelectSeq(ents, LAMBDA ent : In(ent.label_, selected))

\* app.py lines 91-99: the entries appended to `result`
RECURSIVE WebWalk(_, _, _, _)
WebWalk(text, ents, selected, last) ==
    IF ents = <<>> THEN << SliceFrom(text, last) >>
    ELSE LET ent == Head(ents) IN
         IF In(ent.label_, selected)
         THEN << Slice(text, last, ent.start_char),
                 <<WebSpanOpen(ColorOf(ent.label_))>> \o ent.text
                     \o <<LabelSuffix(ent.label_), SpanClose>> >>
              \o WebWalk(text, Tail(ents), selected, ent.end_char)
         ELSE WebWalk(text, Tail(ents), selected, last)

\* main.py lines 263-271 (highlight_entities): the insertText calls, each
\* with its text and the background of its format (<<>>: no format given)
RECURSIVE HighlightWalk(_, _, _)
HighlightWalk(text, entities, last_idx) ==
    IF entities = <<>>
    THEN << [text |-> SliceFrom(text, last_idx), background |-> <<>>] >>
    ELSE LET ent == Head(entities) IN
         << [text |-> Slice(text, last_idx, ent.start_char), background |-> <<>>],
            [text |-> ent.text \o <<LabelSuffix(ent.label_)>>,
             background |-> ColorOf(ent.label_)] >>
         \o HighlightWalk(text, Tail(entities), ent.end_char)

\* mutant: the cursor is not advanced past the entity
RECURSIVE WordWalk_StaleCursor(_, _, _)
WordWalk_StaleCursor(text, ents, last_idx) ==
    IF ents = <<>>
    THEN IF last_idx < Len(text)
         THEN << [text |-> SliceFrom(text, last_idx), fill |-> <<>>] >>
         ELSE <<>>
    ELSE LET ent == Head(ents)
             plain_segment == Slice(text, last_idx, ent.start_char)
             ent_segment == Slice(text, ent.start_char, ent.end_char)
         IN  (IF plain_segment # <<>>
              THEN << [text |-> plain_segment, fill |-> <<>>] >> ELSE <<>>)
             \o (IF ent_segment # <<>>
                 THEN << [text |-> ent_segment \o <<" [" \o ent.label_ \o "]">>,
                          fill |-> lstrip_hash(Get(ENTITY_COLORS, ent.label_, <<"FFFF00">>))] >>
                 ELSE <<>>)
             \o WordWalk_StaleCursor(text, Tail(ents), last_idx)

\* main.py lines 292-303 (save_to_word): the runs added to the paragraph,
\* each with its text and the fill of its shading (<<>>: no shading)
RECURSIVE WordWalk(_, _, _)
WordWalk(text, ents, last_idx) ==
    IF ents = <<>>
    THEN IF last_idx < Len(text)
         THEN << [text |-> SliceFrom(text, last_idx), fill |-> <<>>] >>
         ELSE <<>>
    ELSE LET ent == Head(ents)
             plain_segment == Slice(text, last_idx, ent.start_char)
             ent_segment == Slice(text, ent.start_char, ent.end_char)
         IN  (IF plain_segment # <<>>
              THEN << [text |-> plain_segment, fill |-> <<>>] >> ELSE <<>>)
             \o (IF ent_segment # <<>>
                 THEN << [text |-> ent_segment \o <<LabelSuffix(ent.label_)>>,
                          fill |-> WordFill(ent.label_)] >>
                 ELSE <<>>)
             \o WordWalk(text, Tail(ents), ent.end_char)

\* mutant: the styled segment of the PDF markup carries no label suffix
RECURSIVE PdfWalk_NoSuffix(_, _, _)
PdfWalk_NoSuffix(text, ents, last_idx) ==
    IF ents = <<>>
    THEN IF last_idx < Len(text) THEN SliceFrom(text, last_idx) ELSE <<>>
    ELSE LET ent == Head(ents)
             plain_segment == Slice(text, last_idx, ent.start_char)
             ent_segment == Slice(text, ent.start_char, ent.end_char)
         IN  plain_segment
             \o (IF ent_segment # <<>>
                 THEN <<PdfSpanOpen(ColorOf(ent.label_))>> \o ent_segment
                      \o <<SpanClose>>
                 ELSE <<>>)
             \o PdfWalk_NoSuffix(text, Tail(ents), ent.end_char)

\* main.py lines 323-335 (save_to_pdf): pdf_text
RECURSIVE PdfWalk(_, _, _)
PdfWalk(text, ents, last_idx) ==
    IF ents = <<>>
    THEN IF last_idx < Len(text) THEN SliceFrom(text, last_idx) ELSE <<>>
    ELSE LET ent == Head(ents)
             plain_segment == Slice(text, last_idx, ent.start_char)
             ent_segment == Slice(text, ent.start_char, ent.end_char)
         IN  plain_segment
             \o (IF ent_segment # <<>>
                 THEN <<PdfSpanOpen(ColorOf(ent.label_))>> \o ent_segment
                      \o <<LabelSuffix(ent.label_), SpanClose>>
                 ELSE <<>>)
             \o PdfWalk(text, Tail(ents), ent.end_char)

----------------------------------------------------------------------------
(* The handlers.  An output records what it was made from: the text given  *)
(* to the recognizer, doc.ents as the recognizer gave it and the selection.*)

NoOutput == [state |-> "none", text |-> <<>>, ents |-> <<>>, selected |-> <<>>, out |-> <<>>]

Output(text, ents, selected, out) ==
    [state |-> "done", text |-> text, ents |-> ents, selected |-> selected, out |-> out]

\* main.py lines 198-200 (update_selected_entities): the checked labels, in
\* the order of self.checkboxes
CheckedLabels(boxes) ==
    SelectSeq(CHECKBOX_ENTITY_LABELS, LAMBDA label : boxes[label])

\* app.py lines 62-106 (ner).  The uploaded file, when there is one, is the
\* document; entities is the list of the form's checked labels.
ner(uploaded, form_text, entities) ==
    LET raw == IF uploaded # <<>> THEN uploaded ELSE form_text
        text == WebText(raw)
    IN  \E ents \in NlpEnts(text) :
            /\ ents_of' = ents_of \cup { <<text, ents>> }
            /\ web' = Output(text, ents, entities,
                             Concat(WebWalk(text, ents, entities, 0)))
            /\ UNCHANGED <<text_input, checkboxes, selected_entities, toks_of,
                           text_output, word_doc, pdf_doc, stats, call>>

\* main.py lines 244-271 (tag_entities and highlight_entities)
tag_entities ==
    LET text == InputText(text_input) IN
    IF text = <<>>
    THEN /\ call' = [fn |-> "tag_entities", nlp_text |-> <<>>]
         /\ UNCHANGED <<text_input, checkboxes, selected_entities, ents_of, toks_of,
                        text_output, word_doc, pdf_doc, web, stats>>
    ELSE \E ents \in NlpEnts(GatedText(text)) :
            /\ call' = [fn |-> "tag_entities", nlp_text |-> GatedText(text)]
            /\ ents_of' = ents_of \cup { <<GatedText(text), ents>> }
            /\ text_output' =
                  Output(GatedText(text), ents, selected_entities,
                         HighlightWalk(GatedText(text),
                                       FilterEnts(ents, selected_entities), 0))
            /\ UNCHANGED <<text_input, checkboxes, selected_entities, toks_of,
                           word_doc, pdf_doc, web, stats>>

\* main.py lines 273-304 (save_to_word); file_path is empty when the dialog
\* is cancelled
save_to_word(file_path) ==
    LET text == InputText(text_input) IN
    IF file_path = "" \/ text = <<>> THEN UNCHANGED vars
    ELSE \E ents \in NlpEnts(GatedText(text)) :
            /\ ents_of' = ents_of \cup { <<GatedText(text), ents>> }
            /\ word_doc' =
                  Output(GatedText(text), ents, selected_entities,
                         WordWalk(GatedText(text),
                                  FilterEnts(ents, selected_entities), 0))
            /\ UNCHANGED <<text_input, checkboxes, selected_entities, toks_of,
                           text_output, pdf_doc, web, stats, call>>

\* main.py lines 306-348 (save_to_pdf)
save_to_pdf(file_path) ==
    LET text == InputText(text_input) IN
    IF file_path = "" \/ text = <<>> THEN UNCHANGED vars
    ELSE \E ents \in NlpEnts(GatedText(text)) :
            /\ ents_of' = ents_of \cup { <<GatedText(text), ents>> }
            /\ pdf_doc' =
                  Output(GatedText(text), ents, selected_entities,
                         PdfWalk(GatedText(text),
                                 FilterEnts(ents, selected_entities), 0))
            /\ UNCHANGED <<text_input, checkboxes, selected_entities, toks_of,
                           text_output, word_doc, web, stats, call>>

----------------------------------------------------------------------------
(* Rendering one document: the input box holds a text and the checkboxes a *)
(* selection; the recognizer keeps its contract.                           *)

Alphabet == {"a", "<", " "}

RECURSIVE TextsOfLen(_)
TextsOfLen(n) ==
    IF n = 0 THEN { <<>> }
    ELSE { Append(t, c) : t \in TextsOfLen(n - 1), c \in Alphabet }

Texts == UNION { TextsOfLen(n) : n \in 0..MaxLen }

\* the lists request.form.getlist("entities") may hold
FormEntities == { <<>>, <<"PERSON">>, <<"ORG">>, <<"MISC">>, <<"PERSON", "ORG">>,
                  <<"PERSON", "MISC">>, <<"ORG", "MISC">>, <<"PERSON", "ORG", "MISC">> }

FilePaths == {"", "out"}

Init ==
    /\ text_input \in Texts
    /\ checkboxes \in [{"PERSON", "ORG"} -> BOOLEAN]
    /\ selected_entities = CheckedLabels(checkboxes)
    /\ ents_of = {}
    /\ toks_of = {}
    /\ text_output = NoOutput
    /\ word_doc = NoOutput
    /\ pdf_doc = NoOutput
    /\ web = NoOutput
    /\ stats = NoOutput
    /\ call = NoCall

WebRequest ==
    \E by_file \in BOOLEAN, entities \in FormEntities :
        ner(IF by_file THEN text_input ELSE <<>>,
            IF by_file THEN <<>> ELSE text_input, entities)

TagEntities == tag_entities

SaveToWord == \E file_path \in FilePaths : save_to_word(file_path)

SaveToPdf == \E file_path \in FilePaths : save_to_pdf(file_path)

Next == WebRequest \/ TagEntities \/ SaveToWord \/ SaveToPdf

Spec == Init /\ [][Next]_vars

----------------------------------------------------------------------------
(* Rendering with a recognizer that does not keep its contract: its answer *)
(* for the document is any sequence of spans.                              *)

InitUnchecked ==
    /\ text_input \in { t \in Texts : t # <<>> /\ strip(t) = t }
    /\ checkboxes = [label \in {"PERSON", "ORG"} |-> TRUE]
    /\ selected_entities = CheckedLabels(checkboxes)
    /\ \E ents \in AnyEntSeqs(text_input, MaxSpans) :
          ents_of = { <<WebText(text_input), ents>>,
                      <<GatedText(InputText(text_input)), ents>> }
    /\ toks_of = {}
    /\ text_output = NoOutput
    /\ word_doc = NoOutput
    /\ pdf_doc = NoOutput
    /\ web = NoOutput
    /\ stats = NoOutput
    /\ call = NoCall

SpecUnchecked == InitUnchecked /\ [][Next]_vars

----------------------------------------------------------------------------
(* Statistics.  A token is [is_space, is_punct]; a sentence is a sequence  *)
(* of tokens; len(ent) is the number of tokens of an entity.  A float is   *)
(* the fraction [num, den] in lowest terms; den = 0 stands for a raised    *)
(* ZeroDivisionError.                                                      *)

RECURSIVE GCD(_, _)
GCD(a, b) == IF b = 0 THEN a ELSE GCD(b, a % b)

\* the float 0.0
Zero == [num |-> 0, den |-> 1]

ZeroDivisionError == [num |-> 0, den |-> 0]

\* n / d
TrueDiv(n, d) ==
    IF d = 0 THEN ZeroDivisionError
    ELSE [num |-> n \div GCD(n, d), den |-> d \div GCD(n, d)]

RECURSIVE Sum(_)
Sum(ns) == IF ns = <<>> THEN 0 ELSE ns[1] + Sum(Tail(ns))

\* sum(1 for t in tokens if not t.is_space and not t.is_punct)
CountWords(tokens) ==
    Len(SelectSeq(tokens, LAMBDA t : ~t.is_space /\ ~t.is_punct))

\* Counter(keys): the keys with their counts
Counter(keys) ==
    { <<k, Len(SelectSeq(keys, LAMBDA x : x = k))>> : k \in SetOf(keys) }

\* mutant: the density is computed without the guard on total_words
Density_Unguarded(total_ents, total_words) == TrueDiv(total_ents * 100, total_words)

\* main.py line 375
Density(total_ents, total_words) ==
    IF total_words # 0 THEN TrueDiv(total_ents * 100, total_words) ELSE Zero

\* mutant: the statistics count the selected entities only
CountedEnts_Selected(spans, selected) ==
    SelectSeq(spans, LAMBDA ent : In(ent.label_, selected))

\* main.py lines 373-377: the entities counted are doc_stat.ents, whatever
\* is selected
CountedEnts(spans, selected) == spans

\* main.py lines 366-377: the report, from the tokens, the sentences and the
\* entities, each [label_, length] with len(ent) its length in tokens
Aggregate(tokens, sentences, spans) ==
    LET total_words == CountWords(tokens)
        total_sents == Len(sentences)
        words_per_sent == [i \in 1..total_sents |-> CountWords(sentences[i])]
        total_ents == Len(spans)
        labels == [i \in 1..total_ents |-> spans[i].label_]
        lengths == [i \in 1..total_ents |-> spans[i].length]
    IN  [word_count |-> total_words,
         sentence_count |-> total_sents,
         avg_sentence_length |->
             IF total_sents > 0 THEN TrueDiv(Sum(words_per_sent), total_sents) ELSE Zero,
         entity_count |-> total_ents,
         entities_by_label |-> Counter(labels),
         entity_density |-> Density(total_ents, total_words),
         entity_length_distribution |-> Counter(lengths),
         avg_entity_length |->
             IF total_ents # 0 THEN TrueDiv(Sum(lengths), total_ents) ELSE Zero]

\* a raised exception ends the handler before the report is displayed
Raised(report) ==
    \/ report.avg_sentence_length.den = 0
    \/ report.entity_density.den = 0
    \/ report.avg_entity_length.den = 0

TokenKinds ==
    { [is_space |-> FALSE, is_punct |-> FALSE],
      [is_space |-> TRUE, is_punct |-> FALSE],
      [is_space |-> FALSE, is_punct |-> TRUE] }

RECURSIVE TokenSeqs(_)
TokenSeqs(k) ==
    IF k = 0 THEN { <<>> }
    ELSE { Append(ts, t) : ts \in TokenSeqs(k - 1), t \in TokenKinds }

\* doc.sents: the tokens cut into consecutive sentences
RECURSIVE Sentences(_)
Sentences(tokens) ==
    IF tokens = <<>> THEN { <<>> }
    ELSE UNION { { <<SubSeq(tokens, 1, n)>> \o rest :
                     rest \in Sentences(SubSeq(tokens, n + 1, Len(tokens))) } :
                 n \in 1..Len(tokens) }

RECURSIVE LengthSeqs(_, _)
LengthSeqs(n, k) ==
    IF n = 0 THEN { <<>> }
    ELSE { Append(ls, l) : ls \in LengthSeqs(n - 1, k), l \in 1..k }

\* what the recognizer may say of the tokens of a document with these
\* entities: up to MaxToks tokens (at least one when there is an entity),
\* their sentences, and the token length of each entity
TokenFacets(ents) ==
    UNION { { [tokens |-> ts, sents |-> ss, lengths |-> ls] :
                ss \in Sentences(ts), ls \in LengthSeqs(Len(ents), Len(ts)) } :
            ts \in UNION { TokenSeqs(k) :
                           k \in (IF ents = <<>> THEN 0 ELSE 1)..MaxToks } }

KnownToks(text) == \E p \in toks_of : p[1] = text

NlpToks(text, ents) ==
    IF KnownToks(text) THEN { (CHOOSE p \in toks_of : p[1] = text)[2] }
    ELSE TokenFacets(ents)

Failed(text, ents, selected) ==
    [state |-> "error", text |-> text, ents |-> ents, selected |-> selected, out |-> <<>>]

\* main.py lines 350-403 (show_statistics), without the charts
show_statistics ==
    LET raw_text == InputText(text_input) IN
    IF raw_text = <<>>
    THEN /\ call' = [fn |-> "show_statistics", nlp_text |-> <<>>]
         /\ UNCHANGED <<text_input, checkboxes, selected_entities, ents_of, toks_of,
                        text_output, word_doc, pdf_doc, web, stats>>
    ELSE \E ents \in NlpEnts(GatedText(raw_text)) :
         \E doc \in NlpToks(GatedText(raw_text), ents) :
            LET spans == [i \in 1..Len(ents) |->
                             [label_ |-> ents[i].label_, length |-> doc.lengths[i]]]
                report == Aggregate(doc.tokens, doc.sents,
                                    CountedEnts(spans, selected_entities))
            IN  /\ call' = [fn |-> "show_statistics", nlp_text |-> GatedText(raw_text)]
                /\ ents_of' = ents_of \cup { <<GatedText(raw_text), ents>> }
                /\ toks_of' = toks_of \cup { <<GatedText(raw_text), doc>> }
                /\ stats' =
                      IF Raised(report)
                      THEN Failed(GatedText(raw_text), ents, selected_entities)
                      ELSE Output(GatedText(raw_text), ents, selected_entities, report)
                /\ UNCHANGED <<text_input, checkboxes, selected_entities,
                               text_output, word_doc, pdf_doc, web>>

----------------------------------------------------------------------------
(* A session of the desktop application *)

\* main.py lines 196-200: a checkbox changes state
update_selected_entities(boxes) ==
    /\ checkboxes' = boxes
    /\ selected_entities' = CheckedLabels(boxes)
    /\ UNCHANGED <<text_input, ents_of, toks_of, text_output, word_doc, pdf_doc,
                   web, stats, call>>

ToggleCheckbox ==
    \E label \in {"PERSON", "ORG"} :
        update_selected_entities([checkboxes EXCEPT ![label] = ~checkboxes[label]])

\* main.py lines 184-188
select_all_entities ==
    update_selected_entities([label \in {"PERSON", "ORG"} |-> TRUE])

\* main.py lines 190-194
deselect_all_entities ==
    update_selected_entities([label \in {"PERSON", "ORG"} |-> FALSE])

\* the texts typed or loaded into the input box
SessionTexts == { <<>>, <<" ">>, <<"a">>, <<"a", "\n">> }

\* main.py line 242 (load_file), or typing
SetInputText ==
    \E t \in SessionTexts :
        /\ text_input' = t
        /\ UNCHANGED <<checkboxes, selected_entities, ents_of, toks_of, text_output,
                       word_doc, pdf_doc, web, stats, call>>

\* main.py lines 86-98 (__init__)
InitSession ==
    /\ text_input = <<>>
    /\ checkboxes = [label \in {"PERSON", "ORG"} |-> FALSE]
    /\ selected_entities = <<>>
    /\ ents_of = {}
    /\ toks_of = {}
    /\ text_output = NoOutput
    /\ word_doc = NoOutput
    /\ pdf_doc = NoOutput
    /\ web = NoOutput
    /\ stats = NoOutput
    /\ call = NoCall

ShowStatistics == show_statistics

NextSession ==
    \/ SetInputText
    \/ ToggleCheckbox
    \/ select_all_entities
    \/ deselect_all_entities
    \/ TagEntities
    \/ ShowStatistics

SpecSession == InitSession /\ [][NextSession]_vars

----------------------------------------------------------------------------
(* Inputs of the preprocessor specification *)

Vocabulary ==
    { <<"1">>, <<"$", "1", "2">>, <<"1", "/", "2", "/", "1", "2">>,
      <<"A">>, <<"a">>, <<"a", ".">>, <<"A", "?">>, <<"1", "!">> }

Separators == { <<" ">>, <<"\n", " ">> }

Padding == { <<>>, <<" ">> }

RECURSIVE TokenTexts(_)
TokenTexts(n) ==
    IF n = 0 THEN { <<>> }
    ELSE IF n = 1 THEN Vocabulary
    ELSE { t \o s \o v : t \in TokenTexts(n - 1), s \in Separators, v \in Vocabulary }

PreTexts ==
    { l \o t \o r : l \in Padding, r \in Padding,
                    t \in UNION { TokenTexts(n) : n \in 0..MaxTokens } }

----------------------------------------------------------------------------
(* Direct calls of the preprocessing functions and of the desktop prefix *)

Idle ==
    /\ checkboxes = [label \in {"PERSON", "ORG"} |-> FALSE]
    /\ selected_entities = <<>>
    /\ ents_of = {}
    /\ toks_of = {}
    /\ text_output = NoOutput
    /\ word_doc = NoOutput
    /\ pdf_doc = NoOutput
    /\ web = NoOutput
    /\ stats = NoOutput

InitPre ==
    /\ text_input \in PreTexts
    /\ call = NoCall
    /\ Idle

\* app.py lines 84-85: text = preprocess(text); doc = nlp(text)
CallPreprocess ==
    /\ call' = [fn |-> "preprocess", nlp_text |-> WebText(text_input)]
    /\ UNCHANGED <<text_input, checkboxes, selected_entities, ents_of, toks_of,
                   text_output, word_doc, pdf_doc, web, stats>>

\* main.py preprocess_text called on the input
CallPreprocessText ==
    /\ call' = [fn |-> "preprocess_text", nlp_text |-> preprocess_text(text_input)]
    /\ UNCHANGED <<text_input, checkboxes, selected_entities, ents_of, toks_of,
                   text_output, word_doc, pdf_doc, web, stats>>

\* main.py lines 249-254: strip, the empty check, the gate, self.nlp(text)
CallDesktopPrefix ==
    /\ InputText(text_input) # <<>>
    /\ call' = [fn |-> "desktop", nlp_text |-> GatedText(InputText(text_input))]
    /\ UNCHANGED <<text_input, checkboxes, selected_entities, ents_of, toks_of,
                   text_output, word_doc, pdf_doc, web, stats>>

NextPre == CallPreprocess \/ CallPreprocessText \/ CallDesktopPrefix

SpecPre == InitPre /\ [][NextPre]_vars

----------------------------------------------------------------------------
(* Claims about the preprocessor, checked under SpecPre *)

IsPreprocessed == call.fn \in {"preprocess", "preprocess_text"}

\* the two pipelines: the web one (preprocess) and the desktop one (strip,
\* gate, preprocess_text)
IsPipeline == call.fn \in {"preprocess", "desktop"}

\* t is s without its leading and trailing whitespace
IsTrimOf(t, s) ==
    /\ (t # <<>> => t[1] \notin Whitespace /\ t[Len(t)] \notin Whitespace)
    /\ \E i \in 0..Len(s) : \E j \in i..Len(s) :
          /\ t = SubSeq(s, i + 1, j)
          /\ \A k \in (1..i) \cup ((j + 1)..Len(s)) : s[k] \in Whitespace

\* C3 as stated: for a text holding one of . ! ?, the text handed to the
\* recognizer is the input text, in the web and in the desktop pipeline.
C3_AsStated ==
    (IsPipeline /\ ContainsAny(text_input, Terminal))
        => call.nlp_text = text_input

\* C3, amended: for a text holding one of . ! ?, the web pipeline hands the
\* input text to the recognizer unchanged, and the desktop pipeline hands it
\* the input text without its leading and trailing whitespace (no token is
\* inserted and the whitespace between tokens is kept).
C3_PunctuatedUnchanged ==
    (IsPipeline /\ ContainsAny(text_input, Terminal)) =>
        IF call.fn = "preprocess"
        THEN call.nlp_text = text_input
        ELSE IsTrimOf(call.nlp_text, text_input)

C3_Witness ==
    /\ call.fn = "desktop"
    /\ ContainsAny(text_input, Terminal)
    /\ call.nlp_text # text_input
    /\ \E i \in 1..Len(call.nlp_text) : call.nlp_text[i] = "\n"

\* the parts of r between single spaces
RECURSIVE SpaceParts(_, _)
SpaceParts(r, cur) ==
    IF r = <<>> THEN <<cur>>
    ELSE IF r[1] = " " THEN <<cur>> \o SpaceParts(Tail(r), <<>>)
    ELSE SpaceParts(Tail(r), Append(cur, r[1]))

\* optional '$' followed by digits
IsPriceToken(t) ==
    \/ (Len(t) >= 1 /\ \A i \in 1..Len(t) : t[i] \in Digits)
    \/ (Len(t) >= 2 /\ t[1] = "$" /\ \A i \in 2..Len(t) : t[i] \in Digits)

\* D{1,2}/D{1,2}/D{2,4}
IsDateToken(t) ==
    LET slashes == {i \in 1..Len(t) : t[i] = "/"}
    IN  /\ Cardinality(slashes) = 2
        /\ \A i \in (1..Len(t)) \ slashes : t[i] \in Digits
        /\ LET a == CHOOSE i \in slashes : \A j \in slashes : i <= j
               b == CHOOSE i \in slashes : \A j \in slashes : j <= i
           IN  /\ a - 1 \in 1..2
               /\ b - a - 1 \in 1..2
               /\ Len(t) - b \in 2..4

IsPriceOrDateToken(t) == IsPriceToken(t) \/ IsDateToken(t)

\* token i gets a period: it matches, token i+1 exists and starts uppercase
GetsPeriod(Matches(_), toks, i) ==
    i < Len(toks) /\ Matches(toks[i]) /\ toks[i + 1][1] \in Upper

\* result is the tokens of text joined by single spaces, with one "." token
\* right after token i exactly when GetsPeriod
FollowsInsertionRule(Matches(_), text, result) ==
    LET toks == split(text)
        n == Len(toks)
        before(i) == Cardinality({j \in 1..(i - 1) : GetsPeriod(Matches, toks, j)})
        out == IF result = <<>> THEN <<>> ELSE SpaceParts(result, <<>>)
    IN  /\ Len(out) = n + before(n + 1)
        /\ \A i \in 1..n :
              /\ out[i + before(i)] = toks[i]
              /\ GetsPeriod(Matches, toks, i) => out[i + before(i) + 1] = <<".">>

\* C4 as stated: for a text with none of . ! ?, preprocess and
\* preprocess_text give the tokens joined by single spaces with a "." after
\* token i iff token i is optional '$' and digits and token i+1 starts
\* uppercase.
C4_AsStated ==
    (IsPreprocessed /\ ~ContainsAny(text_input, Terminal))
        => FollowsInsertionRule(IsPriceToken, text_input, call.nlp_text)

\* C4, amended: for a text with none of . ! ?, the result is the tokens
\* joined by single spaces with one "." token right after token i iff token
\* i+1 exists and starts uppercase and token i is optional '$' and digits
\* or, in preprocess_text only, a date D{1,2}/D{1,2}/D{2,4}; a matching last
\* token gets no period.
C4_InsertionRule ==
    (IsPreprocessed /\ ~ContainsAny(text_input, Terminal)) =>
        IF call.fn = "preprocess"
        THEN FollowsInsertionRule(IsPriceToken, text_input, call.nlp_text)
        ELSE FollowsInsertionRule(IsPriceOrDateToken, text_input, call.nlp_text)

\* "$12 A 1" becomes "$12 . A 1": a period after the price, none after the
\* number in last position
C4_Witness ==
    /\ IsPreprocessed
    /\ ~ContainsAny(text_input, Terminal)
    /\ split(text_input) = << <<"$", "1", "2">>, <<"A">>, <<"1">> >>
    /\ call.nlp_text = <<"$", "1", "2", " ", ".", " ", "A", " ", "1">>

\* C5 as stated: for a text with none of . ! ?, in each pipeline a date
\* token followed by a token starting uppercase has a "." token after it in
\* the text handed to the recognizer.
C5_DateRule ==
    (IsPipeline /\ ~ContainsAny(text_input, Terminal)) =>
        LET toks == split(text_input)
            out == split(call.nlp_text)
        IN  \A i \in 1..(Len(toks) - 1) :
                (IsDateToken(toks[i]) /\ toks[i + 1][1] \in Upper) =>
                    \E k \in 1..(Len(out) - 1) :
                        out[k] = toks[i] /\ out[k + 1] = <<".">>

----------------------------------------------------------------------------
(* Claims about rendering, checked under Spec *)

\* the colors a wrapper may carry
WrapperColors == { <<"#", "C8E6C9">>, <<"#", "A2C8EC">>, <<"#", "FFFF00">> }

\* the six hex digits of a color, with or without its "#"
RGB(color) == color[Len(color)]

DefaultRGB == "FFFF00"

Suffixes == { " [" \o l \o "]" : l \in RecognizerLabels }

\* the segments of a markup string: a wrapper element is a styled segment,
\* a maximal run outside wrappers an unstyled one
RECURSIVE MarkupSegments(_, _, _)
MarkupSegments(flat, Open(_), plain) ==
    LET flush == IF plain = <<>> THEN <<>>
                 ELSE << [styled |-> FALSE, visible |-> plain, color |-> <<>>] >>
    IN  IF flat = <<>> THEN flush
        ELSE IF \E c \in WrapperColors : flat[1] = Open(c)
        THEN LET c == CHOOSE c \in WrapperColors : flat[1] = Open(c)
                 k == CHOOSE k \in 2..Len(flat) :
                        /\ flat[k] = SpanClose
                        /\ \A j \in 2..(k - 1) : flat[j] # SpanClose
             IN  flush
                 \o << [styled |-> TRUE, visible |-> SubSeq(flat, 2, k - 1), color |-> c] >>
                 \o MarkupSegments(SubSeq(flat, k + 1, Len(flat)), Open, <<>>)
        ELSE MarkupSegments(Tail(flat), Open, Append(plain, flat[1]))

\* the segments of each target
WebSegments == MarkupSegments(web.out, WebSpanOpen, <<>>)

PdfSegments == MarkupSegments(pdf_doc.out, PdfSpanOpen, <<>>)

WordSegments ==
    [i \in 1..Len(word_doc.out) |->
        [styled |-> word_doc.out[i].fill # <<>>,
         visible |-> word_doc.out[i].text,
         color |-> word_doc.out[i].fill]]

QtSegments ==
    [i \in 1..Len(text_output.out) |->
        [styled |-> text_output.out[i].background # <<>>,
         visible |-> text_output.out[i].text,
         color |-> text_output.out[i].background]]

\* a segment without its decoration: the " [LABEL]" suffix of a styled one
Stripped(seg) ==
    IF seg.styled /\ seg.visible # <<>> /\ seg.visible[Len(seg.visible)] \in Suffixes
    THEN SubSeq(seg.visible, 1, Len(seg.visible) - 1)
    ELSE seg.visible

RECURSIVE Reconstructed(_)
Reconstructed(segs) ==
    IF segs = <<>> THEN <<>> ELSE Stripped(segs[1]) \o Reconstructed(Tail(segs))

Styled(segs) == SelectSeq(segs, LAMBDA seg : seg.styled)

\* sorted by start, not overlapping, within the text
WellFormed(ents, text) ==
    /\ \A i \in 1..Len(ents) :
          0 <= ents[i].start_char /\ ents[i].start_char <= ents[i].end_char
                                  /\ ents[i].end_char <= Len(text)
    /\ \A i \in 1..(Len(ents) - 1) : ents[i].end_char <= ents[i + 1].start_char

Covers(o, segs) ==
    (o.state = "done" /\ WellFormed(o.ents, o.text)) => Reconstructed(segs) = o.text

\* C1: in the inline-highlight, document-run and print-markup targets, the
\* emitted segments without their label suffix and color wrapper
\* concatenate, in order, to exactly the text that was rendered.
C1_Coverage ==
    /\ Covers(web, WebSegments)
    /\ Covers(word_doc, WordSegments)
    /\ Covers(pdf_doc, PdfSegments)

\* every target has rendered plain text followed by an entity, and the
\* document writer two adjacent entities
C1_Witness ==
    /\ web.state = "done" /\ word_doc.state = "done" /\ pdf_doc.state = "done"
    /\ Len(Styled(WebSegments)) = 1 /\ Len(WebSegments) = 2
    /\ Len(Styled(PdfSegments)) = 2
    /\ Len(Styled(WordSegments)) = 2
    /\ Len(word_doc.text) = 2

\* the styled segments of segs are the entities of o.ents whose label is in
\* o.selected: as many, in the same order, each whole, at its own place and
\* under its own label
HighlightsSelection(o, segs) ==
    o.state = "done" =>
        LET S == o.ents
            L == SetOf(o.selected)
            kept == { i \in 1..Len(S) : S[i].label_ \in L }
            rank(i) == Cardinality({ j \in kept : j <= i })
            hl == Styled(segs)
            \* the segment of segs that is the k-th styled one
            at(k) == CHOOSE n \in 1..Len(segs) :
                        segs[n].styled /\ Len(Styled(SubSeq(segs, 1, n))) = k
        IN  /\ Len(hl) = Cardinality(kept)
            /\ \A i \in kept :
                  /\ hl[rank(i)].visible = S[i].text \o << " [" \o S[i].label_ \o "]" >>
                  /\ S[i].text = SubSeq(o.text, S[i].start_char + 1, S[i].end_char)
                  /\ Len(Reconstructed(SubSeq(segs, 1, at(rank(i)) - 1))) = S[i].start_char
            /\ (L = {} => Reconstructed(segs) = o.text /\ hl = <<>>)

\* C2: the highlighted spans are the order-preserving subsequence of the
\* recognizer's spans whose label is selected, none split, merged or
\* re-labeled; with an empty selection nothing is highlighted and the
\* output is the plain text.
C2_SpanFilter ==
    /\ HighlightsSelection(web, WebSegments)
    /\ HighlightsSelection(text_output, QtSegments)
    /\ HighlightsSelection(word_doc, WordSegments)
    /\ HighlightsSelection(pdf_doc, PdfSegments)
    /\ (web.state = "done" /\ web.selected = <<>>) => web.out = web.text

\* two entities of different labels, one of them selected, in the web and in
\* the desktop output
C2_Witness ==
    /\ text_output.state = "done" /\ web.state = "done"
    /\ Len(text_output.ents) = 2 /\ Len(Styled(QtSegments)) = 1
    /\ text_output.ents[1].label_ # text_output.ents[2].label_
    /\ Len(web.ents) = 2 /\ Len(Styled(WebSegments)) = 1

\* the label a styled segment carries
LabelOf(seg) ==
    CHOOSE l \in RecognizerLabels : seg.visible[Len(seg.visible)] = " [" \o l \o "]"

DefaultColored(o, segs) ==
    o.state = "done" =>
        \A n \in 1..Len(segs) :
            (segs[n].styled /\ LabelOf(segs[n]) \notin DOMAIN ENTITY_COLORS)
                => RGB(segs[n].color) = DefaultRGB

\* the fallback of a selected entity with an unknown label is the default
\* RGB value, in the markup targets and in the document writer
FallbackAgrees(o) ==
    o.state = "done" =>
        \A i \in 1..Len(o.ents) :
            (In(o.ents[i].label_, o.selected)
             /\ o.ents[i].label_ \notin DOMAIN ENTITY_COLORS)
                => /\ RGB(ColorOf(o.ents[i].label_)) = DefaultRGB
                   /\ WordFill(o.ents[i].label_) = <<DefaultRGB>>

\* C8: a selected span whose label is not in the palette is rendered as a
\* styled segment with the default color, one RGB value for the three
\* targets.
C8_UnknownLabel ==
    /\ DefaultColored(web, WebSegments)
    /\ DefaultColored(word_doc, WordSegments)
    /\ DefaultColored(pdf_doc, PdfSegments)
    /\ FallbackAgrees(web)
    /\ FallbackAgrees(word_doc)
    /\ FallbackAgrees(pdf_doc)

\* a selected MISC entity after plain text, rendered by the web handler
C8_Witness ==
    /\ web.state = "done"
    /\ \E n \in 1..Len(WebSegments) :
          /\ WebSegments[n].styled
          /\ LabelOf(WebSegments[n]) = "MISC"
          /\ WebSegments[n].color = <<"#", "FFFF00">>

MarkupSpecial == {"<", ">", "&"}

\* C10 as stated: every '<', '>' and '&' of the input text is escaped in
\* the inline-highlight and print-markup outputs: none stands there as
\* itself.
C10_Escaped ==
    /\ web.state = "done" => \A i \in 1..Len(web.out) : web.out[i] \notin MarkupSpecial
    /\ pdf_doc.state = "done" =>
          \A i \in 1..Len(pdf_doc.out) : pdf_doc.out[i] \notin MarkupSpecial

\* the non-empty segments of a target as a reader sees them: visible text,
\* styled or not, and the RGB value of the color of a styled one
Seen(segs) ==
    LET shown == SelectSeq(segs, LAMBDA seg : seg.visible # <<>>)
    IN  [i \in 1..Len(shown) |->
            [styled |-> shown[i].styled,
             visible |-> shown[i].visible,
             rgb |-> IF shown[i].styled THEN RGB(shown[i].color) ELSE ""]]

\* two outputs rendered from the same text, spans and selection
SameInput(a, b) ==
    /\ a.state = "done" /\ b.state = "done"
    /\ a.text = b.text
    /\ a.ents = b.ents
    /\ SetOf(a.selected) = SetOf(b.selected)

\* C11: rendered from the same text, the same sorted non-overlapping spans
\* and the same selection, the web markup, the rich-text view, the document
\* runs and the PDF markup show the same non-empty segments in the same
\* order: same visible text (entity text and " [LABEL]" for a styled one),
\* same styled/unstyled status, same RGB value of the color.
C11_OneSplicing ==
    /\ SameInput(web, word_doc) => Seen(WebSegments) = Seen(WordSegments)
    /\ SameInput(web, pdf_doc) => Seen(WebSegments) = Seen(PdfSegments)
    /\ SameInput(word_doc, pdf_doc) => Seen(WordSegments) = Seen(PdfSegments)
    /\ SameInput(text_output, word_doc) => Seen(QtSegments) = Seen(WordSegments)
    /\ SameInput(web, text_output) => Seen(WebSegments) = Seen(QtSegments)

\* the four targets have rendered one document of two entities, the first
\* at the start of the text and the only one selected
C11_Witness ==
    /\ SameInput(web, word_doc) /\ SameInput(web, pdf_doc)
    /\ SameInput(web, text_output)
    /\ Len(web.ents) = 2
    /\ web.ents[1].start_char = 0
    /\ Len(Seen(PdfSegments)) = 2
    /\ Seen(PdfSegments)[1].styled /\ ~Seen(PdfSegments)[2].styled

----------------------------------------------------------------------------
(* Claim about malformed spans, checked under SpecUnchecked *)

Rejected(o, segs) ==
    o.state = "done" =>
        /\ WellFormed(FilterEnts(o.ents, o.selected), o.text)
        /\ Reconstructed(segs) = o.text

\* C9 as stated: spans that overlap, are not sorted, or lie outside the
\* text are detected before rendering, so an output is rendered only from
\* well-formed spans and never duplicates, drops or reorders text.
C9_InvalidSpanRejected ==
    /\ Rejected(web, WebSegments)
    /\ Rejected(text_output, QtSegments)

----------------------------------------------------------------------------
(* Claims about the statistics, checked under SpecSession *)

\* what the recognizer said of the tokens of the document of the report
StatsDoc == (CHOOSE p \in toks_of : p[1] = stats.text)[2]

\* the number of entities of the document with this label
LabelCount(ents, l) == Cardinality({ i \in 1..Len(ents) : ents[i].label_ = l })

\* C6: the report is computed over all the entities of the recognizer: a
\* later report for the same text is the same report, whatever was selected
\* or tagged in between, and it counts every entity of the document.
C6_StatsIgnoreSelection ==
    /\ [][(stats.state = "done" /\ stats'.state = "done" /\ stats'.text = stats.text)
             => stats'.out = stats.out]_vars
    /\ [](stats.state = "done" =>
             /\ stats.out.entity_count = Len(stats.ents)
             /\ stats.out.entities_by_label =
                   { <<l, LabelCount(stats.ents, l)>> :
                       l \in { stats.ents[i].label_ : i \in 1..Len(stats.ents) } })

\* a report on a document with an entity that is not selected, after the
\* document was tagged under another selection
C6_Witness ==
    /\ stats.state = "done"
    /\ text_output.state = "done"
    /\ text_output.selected # stats.selected
    /\ \E i \in 1..Len(stats.ents) : ~In(stats.ents[i].label_, stats.selected)
    /\ stats.out.entity_count = 1

IsWord(t) == ~t.is_space /\ ~t.is_punct

\* C7: the report is always produced; with no word among the tokens it has
\* word_count = 0 and entity_density = 0.0 whatever the entities and the
\* sentences; avg_entity_length is 0.0 without entities and
\* avg_sentence_length is 0 without sentences.
C7_ZeroDenominators ==
    /\ stats.state # "error"
    /\ stats.state = "done" =>
          /\ (\A i \in 1..Len(StatsDoc.tokens) : ~IsWord(StatsDoc.tokens[i]))
                => /\ stats.out.word_count = 0
                   /\ stats.out.entity_density = [num |-> 0, den |-> 1]
          /\ stats.ents = <<>> => stats.out.avg_entity_length = [num |-> 0, den |-> 1]
          /\ StatsDoc.sents = <<>> => stats.out.avg_sentence_length = [num |-> 0, den |-> 1]

\* a report on punctuation and whitespace only, in two sentences, with an
\* entity
C7_Witness ==
    /\ stats.state = "done"
    /\ Len(StatsDoc.tokens) = 2
    /\ \A i \in 1..Len(StatsDoc.tokens) : ~IsWord(StatsDoc.tokens[i])
    /\ stats.out.sentence_count = 2
    /\ stats.out.entity_count = 1
    /\ stats.out.entity_density = [num |-> 0, den |-> 1]

\* a report on a document without tokens: no sentence, no entity
C7_WitnessEmpty ==
    /\ stats.state = "done"
    /\ StatsDoc.sents = <<>>
    /\ stats.ents = <<>>

----------------------------------------------------------------------------
(* Claim about empty input, checked under SpecSession *)

\* nothing is displayed in the output view
ShowsNothing(o) ==
    o.state = "none" \/ \A i \in 1..Len(o.out) : o.out[i].text = <<>>

\* the statistics panel is empty or holds a report of zeros
ShowsZeroReport(o) ==
    \/ o.state = "none"
    \/ /\ o.state = "done"
       /\ o.out.word_count = 0 /\ o.out.sentence_count = 0
       /\ o.out.entity_count = 0
       /\ o.out.avg_sentence_length = Zero
       /\ o.out.entity_density = Zero
       /\ o.out.avg_entity_length = Zero

\* C12 as stated: after tag_entities is called on an empty or whitespace-only
\* input the output view shows nothing, and after show_statistics is called
\* on one the panel shows a report of zeros, whatever was processed before;
\* the web response for an empty text is empty.
C12_EmptyInput ==
    /\ (call.fn = "tag_entities" /\ call.nlp_text = <<>>) => ShowsNothing(text_output)
    /\ (call.fn = "show_statistics" /\ call.nlp_text = <<>>) => ShowsZeroReport(stats)
    /\ (web.state = "done" /\ web.text = <<>>) => web.out = <<>>

=============================================================================
